---- MODULE Spec2Model ----
(***************************************************************************)
(* Model of the sunny-alert scheduler of the weather bot                   *)
(* (bot/alert_scheduler.py) together with the subscription store           *)
(* (bot/utils/db.py), the forecast gateway (bot/utils/weather.py) and the  *)
(* minute scheduler and alert rules of the single-file bot                 *)
(* (weather_bot.py).                                                       *)
(*                                                                         *)
(* Time is counted in whole seconds since an arbitrary epoch.  A time      *)
(* string ("2024-01-01T04:00", a stored CURRENT_TIMESTAMP) is a record     *)
(* [valid, secs]: whether datetime.fromisoformat accepts it and, if so,    *)
(* the instant it denotes.                                                 *)
(***************************************************************************)
EXTENDS Integers, Sequences, FiniteSets, TLC

VARIABLES
    clock,      \* the wall clock, datetime.now(UTC), in seconds
    users,      \* table users: set of rows, primary key user_id
    alerts,     \* table alerts: sequence of rows in id order
    forecast,   \* the hourly series the provider serves: <<[time, weather_code]>>
    ledger,     \* table sent_sunny_alerts: set of rows [user_id, alert_time, sent_at]
    run,        \* run[r]: one execution of process_sunny_alerts (a cron process)
    nsent,      \* per (user, bucket key): calls of bot.send_message so far
    nticks,     \* number of executions of process_sunny_alerts started so far
    probe,      \* the last direct call of a library function and its result
    legacy      \* the single-file bot (weather_bot.py): its scheduler thread,
                \* the candidates of its last tick, the messages it handed
                \* to bot.send_message

vars == <<clock, users, alerts, forecast, ledger, run, nsent, nticks, probe, legacy>>

----------------------------------------------------------------------------
(* Bounds of the model *)

MaxHours == 2       \* the clock runs from 0 to MaxHours hours
MaxTicks == 3       \* executions of process_sunny_alerts per behaviour
MaxEntries == 2     \* length of the hourly series
MaxOverlapTicks == 2 \* executions per behaviour of the overlap scenario

(* Program constants *)

CooldownHours == 2
LeadHours == 2
WindowSeconds == 7200

Hour == 60 * 60
Day == 24 * Hour

UserIds == {1, 2}
RunIds == {1, 2}

\* The instants the clock is sampled at: every full hour, and the second after
\* every LeadHours-th hour (where the window and the cooldown of an hour sampled
\* at clock 0 begin and end).
Instants ==
    {k * Hour : k \in 0..MaxHours}
        \cup {k * Hour + 1 : k \in {h \in 0..MaxHours : h % LeadHours = 0}}

\* The forecast hours the provider may serve, seen from clock 0: the hour whose
\* alert time (t - 2h) is the start of the window, the hour whose alert time is
\* its end, and the second after that.
ForecastTimes ==
    {LeadHours * Hour, LeadHours * Hour + WindowSeconds, LeadHours * Hour + WindowSeconds + 1}

\* The bucket keys ("YYYY-MM-DD HH:00") up to the latest forecast hour.
BucketKeys == {h * Hour : h \in 0..((LeadHours * Hour + WindowSeconds) \div Hour)}

TimeStr(s) == [valid |-> TRUE, secs |-> s]
BadTimeStr == [valid |-> FALSE, secs |-> 0]

\* The (time, weather_code) pairs of the series: a clear sky (0) at each forecast
\* hour, an overcast sky (3) at the hour at the end of the window, and a pair
\* whose time string does not parse.
HourlyEntries ==
    {[time |-> TimeStr(t), weather_code |-> 0] : t \in ForecastTimes}
        \cup {[time |-> TimeStr(LeadHours * Hour + WindowSeconds), weather_code |-> 3]}
        \cup {[time |-> BadTimeStr, weather_code |-> 0]}

SeqsUpTo(S, n) == UNION {[1..k -> S] : k \in 1..n}

\* Shapes of what get_hourly_weather_data hands to process_sunny_alerts.
\*   "none"       None: network error or non-200 status
\*   "nohourly"   a dict without the key "hourly"
\*   "nofields"   "hourly" is a dict without "time"/"weather_code"
\*   "badhourly"  "hourly" is present but is not a dict (null, a list)
\*   "ok"         "hourly" holds the series `forecast`
FetchShapes == {"none", "nohourly", "nofields", "badhourly", "ok"}

\* What became of a candidate in a run.
Outcome(shape) ==
    CASE shape = "ok" -> "evaluated"
      [] shape = "badhourly" -> "raised"
      [] OTHER -> "skipped"

----------------------------------------------------------------------------
(* bot/utils/db.py *)

UserRow(u) ==
    [user_id |-> u, username |-> "u", location_lat |-> u, location_lon |-> u,
     location_name |-> "home"]

AlertRow(i, u, kind, at, cond, act) ==
    [id |-> i, user_id |-> u, alert_type |-> kind, alert_time |-> at,
     conditions |-> cond, active |-> act]

\* The query without its condition on the active flag.
get_sunny_alert_users_any_flag(us, al) ==
    {u \in us : \E i \in 1..Len(al) :
        /\ al[i].user_id = u.user_id
        /\ al[i].alert_type = "sunny"}

\* SELECT DISTINCT u.user_id, ... FROM users u JOIN alerts a ON u.user_id = a.user_id
\* WHERE a.alert_type = 'sunny' AND a.active = 1
get_sunny_alert_users(us, al) ==
    {u \in us : \E i \in 1..Len(al) :
        /\ al[i].user_id = u.user_id
        /\ al[i].alert_type = "sunny"
        /\ al[i].active = 1}

\* The orders in which the rows of a result set may be returned.
Orderings(S) ==
    {q \in [1..Cardinality(S) -> S] : \A i, j \in 1..Cardinality(S) : i # j => q[i] # q[j]}

----------------------------------------------------------------------------
(* bot/alert_scheduler.py *)

\* datetime.fromisoformat(s), made aware as UTC: defined when s.valid.
fromisoformat(s) == s.secs

\* The bucket taken from the alert time t - 2h instead of the forecast hour t.
alert_time_str_of_alert(t) == (t - LeadHours * Hour) - ((t - LeadHours * Hour) % Hour)

\* t.strftime("%Y-%m-%d %H:00"): the instant truncated to the hour.
alert_time_str(t) == t - (t % Hour)

\* t.strftime("%H:%M")
hhmm(t) == <<(t % Day) \div Hour, (t % Hour) \div 60>>

\* The call forgotten: nothing is recorded.
mark_alert_sent_skip(led, user_id, alert_time, ts) == led

\* Plain INSERT without the primary key: a row is added every time.
mark_alert_sent_always_insert(led, user_id, alert_time, ts) ==
    led \cup {[user_id |-> user_id, alert_time |-> alert_time, sent_at |-> TimeStr(ts)]}

\* INSERT OR REPLACE: a plausible slip for INSERT OR IGNORE.
mark_alert_sent_replace(led, user_id, alert_time, ts) ==
    {r \in led : ~(r.user_id = user_id /\ r.alert_time = alert_time)}
        \cup {[user_id |-> user_id, alert_time |-> alert_time, sent_at |-> TimeStr(ts)]}

\* INSERT OR IGNORE INTO sent_sunny_alerts (user_id, alert_time) VALUES (?, ?)
\* under PRIMARY KEY (user_id, alert_time); sent_at defaults to CURRENT_TIMESTAMP.
mark_alert_sent(led, user_id, alert_time, ts) ==
    IF \E r \in led : r.user_id = user_id /\ r.alert_time = alert_time
    THEN led
    ELSE led \cup {[user_id |-> user_id, alert_time |-> alert_time,
                    sent_at |-> TimeStr(ts)]}

\* n taken as minutes: (now - sent_at).total_seconds() < n * 60.
has_sent_alert_in_past_n_hours_minutes(led, user_id, alert_time, n, now) ==
    LET rows == {r \in led : r.user_id = user_id /\ r.alert_time = alert_time}
    IN  IF rows = {} THEN FALSE
        ELSE LET row == CHOOSE r \in rows : TRUE
             IN  IF ~row.sent_at.valid THEN FALSE
                 ELSE (now - fromisoformat(row.sent_at)) < n * 60

\* (now - sent_at).total_seconds() <= n * 60 * 60: a plausible off-by-one.
has_sent_alert_in_past_n_hours_le(led, user_id, alert_time, n, now) ==
    LET rows == {r \in led : r.user_id = user_id /\ r.alert_time = alert_time}
    IN  IF rows = {} THEN FALSE
        ELSE LET row == CHOOSE r \in rows : TRUE
             IN  IF ~row.sent_at.valid THEN FALSE
                 ELSE (now - fromisoformat(row.sent_at)) <= n * 60 * 60

\* A timestamp that does not parse taken as a recent one.
has_sent_alert_in_past_n_hours_fail_closed(led, user_id, alert_time, n, now) ==
    LET rows == {r \in led : r.user_id = user_id /\ r.alert_time = alert_time}
    IN  IF rows = {} THEN FALSE
        ELSE LET row == CHOOSE r \in rows : TRUE
             IN  IF ~row.sent_at.valid THEN TRUE
                 ELSE (now - fromisoformat(row.sent_at)) < n * 60 * 60

has_sent_alert_in_past_n_hours(led, user_id, alert_time, n, now) ==
    LET rows == {r \in led : r.user_id = user_id /\ r.alert_time = alert_time}
    IN  IF rows = {} THEN FALSE
        ELSE LET row == CHOOSE r \in rows : TRUE
             IN  IF ~row.sent_at.valid THEN FALSE
                 ELSE (now - fromisoformat(row.sent_at)) < n * 60 * 60

\* The rule with the window open at its upper bound.
Qualifies_open_upper(e, now) ==
    /\ e.time.valid
    /\ ~(fromisoformat(e.time) <= now)
    /\ e.weather_code = 0
    /\ LET alert_time == fromisoformat(e.time) - LeadHours * Hour
       IN  0 <= alert_time - now /\ alert_time - now < WindowSeconds

\* The rule with the lower bound of the window forgotten.
Qualifies_no_lower(e, now) ==
    /\ e.time.valid
    /\ ~(fromisoformat(e.time) <= now)
    /\ e.weather_code = 0
    /\ LET alert_time == fromisoformat(e.time) - LeadHours * Hour
       IN  alert_time - now <= WindowSeconds

\* The sunny rule of process_sunny_alerts for one (t_str, code) pair, lines 110-123.
Qualifies(e, now) ==
    /\ e.time.valid
    /\ ~(fromisoformat(e.time) <= now)
    /\ e.weather_code = 0
    /\ LET alert_time == fromisoformat(e.time) - LeadHours * Hour
       IN  0 <= alert_time - now /\ alert_time - now <= WindowSeconds

\* The first index >= j of a qualifying pair of the series, 0 if there is none.
NextQualifying(series, j, now) ==
    LET Q == {k \in j..Len(series) : Qualifies(series[k], now)}
    IN  IF Q = {} THEN 0 ELSE CHOOSE k \in Q : \A m \in Q : k <= m

\* run[r].last[u]: the most recent call of bot.send_message of the run for
\* user u, if any.
NoMessage ==
    [some |-> FALSE, user_id |-> 0, text_time |-> <<0, 0>>, t |-> 0, code |-> 0,
     bucket |-> 0, nth |-> 0, at |-> 0, delivered |-> FALSE]

\* run[r]: pc, the run's number, its `now`, the candidates in the order the
\* query returned them, the position in the batch (i) and in the series (j),
\* what became of each candidate, and the messages sent to each.
IdleRun ==
    [pc |-> "idle", tick |-> 0, now |-> 0, users |-> <<>>, i |-> 0, j |-> 0,
     fetched |-> [u \in UserIds |-> "unvisited"],
     nsent |-> [u \in UserIds |-> 0], last |-> [u \in UserIds |-> NoMessage]]

\* Move on to the next user of the batch, or finish the run.
NextUser(rr) ==
    IF rr.i < Len(rr.users)
    THEN [rr EXCEPT !.i = rr.i + 1, !.j = 0, !.pc = "fetch"]
    ELSE [rr EXCEPT !.i = rr.i + 1, !.j = 0, !.pc = "done"]

CurUser(rr) == rr.users[rr.i].user_id
CurEntry(rr) == forecast[rr.j]

----------------------------------------------------------------------------
(* Initial states *)

\* probe: the last direct call of mark_alert_sent (op "mark"; result: whether
\* the pair had a row before the call) or of has_sent_alert_in_past_n_hours
\* (op "has_sent"; result: what it returned).
NoProbe ==
    [op |-> "none", user_id |-> 0, alert_time |-> 0, n |-> 0, result |-> FALSE]

\* WeatherBot before run(): no scheduler thread has ticked, nothing was sent.
\* tasks: the send_alert coroutines handed to an event loop, as
\* [user_id, alert_type, at].
NoLegacy ==
    [thread |-> "running", ticked |-> FALSE, triggered |-> {}, tasks |-> {},
     outbox |-> {}]

Init ==
    /\ clock = 0
    /\ users \in SUBSET {UserRow(u) : u \in UserIds}
    /\ \E act \in [UserIds -> {0, 1}] :
          alerts = [i \in 1..2 |-> AlertRow(i, i, "sunny", "next_sunny_hour", "clear_sky", act[i])]
    /\ forecast \in SeqsUpTo(HourlyEntries, MaxEntries)
    /\ ledger = {}
    /\ run = [r \in RunIds |-> IdleRun]
    /\ nsent = [k \in UserIds \X BucketKeys |-> 0]
    /\ nticks = 0
    /\ probe = NoProbe
    /\ legacy = NoLegacy

----------------------------------------------------------------------------
(* Actions *)

\* Time passes.
Advance ==
    /\ \A r \in RunIds : run[r].pc \notin {"scan", "send"}
    /\ \E t \in Instants : t > clock /\ clock' = t
    /\ UNCHANGED <<legacy, users, alerts, forecast, ledger, run, nsent, nticks, probe>>

\* process_sunny_alerts, lines 98-101: the table exists, the candidates are
\* listed and `now` is taken once for the whole run.
Begin(r, max) ==
    /\ nticks < max
    /\ \E q \in Orderings(get_sunny_alert_users(users, alerts)) :
          run' = [run EXCEPT ![r] =
                    NextUser([IdleRun EXCEPT !.tick = nticks + 1, !.now = clock,
                                             !.users = q])]
    /\ nticks' = nticks + 1
    /\ UNCHANGED <<legacy, clock, users, alerts, forecast, ledger, nsent, probe>>

\* Lines 103-108: the hourly forecast of the current user arrives.
Receive(r, shape) ==
    /\ run[r].pc = "fetch"
    /\ LET rr == [run[r] EXCEPT !.fetched[CurUser(run[r])] = Outcome(shape)]
       IN  run' = [run EXCEPT ![r] =
              CASE shape \in {"none", "nohourly"} -> NextUser(rr)
                [] shape = "nofields" -> NextUser(rr)
                [] shape = "badhourly" -> [rr EXCEPT !.pc = "crashed"]
                [] OTHER -> [rr EXCEPT !.pc = "scan", !.j = 1]]
    /\ UNCHANGED <<legacy, clock, users, alerts, forecast, ledger, nsent, nticks, probe>>

\* The response takes any of its shapes.
Fetch(r) == \E shape \in FetchShapes : Receive(r, shape)

\* Lines 109-125: walk the series up to the next qualifying pair and consult
\* the ledger for it.
Check(r) ==
    /\ run[r].pc = "scan"
    /\ LET k == NextQualifying(forecast, run[r].j, run[r].now)
       IN  run' = [run EXCEPT ![r] =
              IF k = 0 THEN NextUser(run[r])
              ELSE IF has_sent_alert_in_past_n_hours(
                          ledger, CurUser(run[r]),
                          alert_time_str(fromisoformat(forecast[k].time)),
                          CooldownHours, clock)
                   THEN [run[r] EXCEPT !.j = k + 1]
                   ELSE [run[r] EXCEPT !.j = k, !.pc = "send"]]
    /\ UNCHANGED <<legacy, clock, users, alerts, forecast, ledger, nsent, nticks, probe>>

\* Lines 126-128 and send_sunny_alert: the message is handed to the chat
\* platform; a failure is logged and swallowed.
Deliver(r, ok) ==
    /\ run[r].pc = "send"
    /\ LET u == CurUser(run[r])
           t == fromisoformat(CurEntry(run[r]).time)
           key == <<u, alert_time_str(t)>>
       IN  /\ nsent' = [nsent EXCEPT ![key] = @ + 1]
           /\ run' = [run EXCEPT
                    ![r].pc = "mark",
                    ![r].nsent[u] = @ + 1,
                    ![r].last[u] =
                       [some |-> TRUE, user_id |-> u, text_time |-> hhmm(t), t |-> t,
                        code |-> CurEntry(run[r]).weather_code,
                        bucket |-> alert_time_str(t), nth |-> nsent[key] + 1,
                        at |-> clock, delivered |-> ok]]
    /\ UNCHANGED <<legacy, clock, users, alerts, forecast, ledger, nticks, probe>>

\* bot.send_message succeeds or raises.
Send(r) == \E ok \in BOOLEAN : Deliver(r, ok)

\* The record written only when the message was delivered.
Mark_if_delivered(r) ==
    /\ run[r].pc = "mark"
    /\ ledger' = IF run[r].last[CurUser(run[r])].delivered
                 THEN mark_alert_sent(ledger, CurUser(run[r]),
                                      alert_time_str(fromisoformat(CurEntry(run[r]).time)),
                                      clock)
                 ELSE ledger
    /\ run' = [run EXCEPT ![r].pc = "scan", ![r].j = run[r].j + 1]
    /\ UNCHANGED <<legacy, clock, users, alerts, forecast, nsent, nticks, probe>>

\* The loop left after the first notification of a user (a break after line 129).
Mark_break(r) ==
    /\ run[r].pc = "mark"
    /\ ledger' = mark_alert_sent(ledger, CurUser(run[r]),
                                 alert_time_str(fromisoformat(CurEntry(run[r]).time)),
                                 clock)
    /\ run' = [run EXCEPT ![r] = NextUser(run[r])]
    /\ UNCHANGED <<legacy, clock, users, alerts, forecast, nsent, nticks, probe>>

\* Line 129: mark_alert_sent.
Mark(r) ==
    /\ run[r].pc = "mark"
    /\ ledger' = mark_alert_sent(ledger, CurUser(run[r]),
                                 alert_time_str(fromisoformat(CurEntry(run[r]).time)),
                                 clock)
    /\ run' = [run EXCEPT ![r].pc = "scan", ![r].j = run[r].j + 1]
    /\ UNCHANGED <<legacy, clock, users, alerts, forecast, nsent, nticks, probe>>

Active(r) == run[r].pc \notin {"idle", "done", "crashed"}

\* The timer fires while no run is in progress.
Start(r) ==
    /\ \A q \in RunIds : ~Active(q)
    /\ r = 1
    /\ Begin(r, MaxTicks)

\* The timer fires while an earlier run is still in progress.
StartOverlapping(r) ==
    /\ ~Active(r)
    /\ \E q \in RunIds : Active(q)
    /\ Begin(r, MaxOverlapTicks)

Next ==
    \/ Advance
    \/ \E r \in RunIds : Start(r)
    \/ \E r \in RunIds : Fetch(r)
    \/ \E r \in RunIds : Check(r)
    \/ \E r \in RunIds : Send(r)
    \/ \E r \in RunIds : Mark(r)

\* One user with a saved location.
InitOneUser ==
    /\ Init
    /\ \A u \in users : u.user_id = 1

\* The reference design, one run of process_sunny_alerts at a time, seen by one
\* user.
Spec == InitOneUser /\ [][Next]_vars

\* The same with up to two candidates in the batch of a run.
BatchSpec == Init /\ [][Next]_vars

\* The first run of the overlap scenario.
StartFirst(r) ==
    /\ nticks = 0
    /\ Start(r)

NextOverlap ==
    \/ Advance
    \/ \E r \in RunIds : StartFirst(r)
    \/ \E r \in RunIds : StartOverlapping(r)
    \/ \E r \in RunIds : Fetch(r)
    \/ \E r \in RunIds : Check(r)
    \/ \E r \in RunIds : Send(r)
    \/ \E r \in RunIds : Mark(r)

\* The overlap scenario has one user with a saved location and one hour in the
\* series.
OverlapInit ==
    /\ InitOneUser
    /\ Len(forecast) = 1

\* Two cron processes: a run may start while the previous one is in progress.
OverlapSpec == OverlapInit /\ [][NextOverlap]_vars

----------------------------------------------------------------------------
(* The dedup ledger on its own: direct calls of mark_alert_sent and of        *)
(* has_sent_alert_in_past_n_hours at arbitrary times.                        *)

\* The instants of the ledger scenario: every full hour, the second before it
\* and the second after it.
LedgerInstants == {i \in {k * Hour + e : k \in 0..MaxHours, e \in {-1, 0, 1}} : i >= 0}

LedgerInit ==
    /\ clock = 0
    /\ users = {}
    /\ alerts = <<>>
    /\ forecast = <<>>
    /\ ledger = {}
    /\ run = [r \in RunIds |-> IdleRun]
    /\ nsent = [k \in UserIds \X BucketKeys |-> 0]
    /\ nticks = 0
    /\ probe = NoProbe
    /\ legacy = NoLegacy

LedgerAdvance ==
    /\ \E t \in LedgerInstants : t > clock /\ clock' = t
    /\ probe' = NoProbe
    /\ UNCHANGED <<legacy, users, alerts, forecast, ledger, run, nsent, nticks>>

\* mark_alert_sent(user_id, alert_time)
MarkCall(u, a) ==
    /\ ledger' = mark_alert_sent(ledger, u, a, clock)
    /\ probe' = [op |-> "mark", user_id |-> u, alert_time |-> a, n |-> 0,
                 result |-> \E row \in ledger : row.user_id = u /\ row.alert_time = a]
    /\ UNCHANGED <<legacy, clock, users, alerts, forecast, run, nsent, nticks>>

\* has_sent_alert_in_past_n_hours(user_id, alert_time, n)
ProbeCall(u, a, n) ==
    /\ probe' = [op |-> "has_sent", user_id |-> u, alert_time |-> a, n |-> n,
                 result |-> has_sent_alert_in_past_n_hours(ledger, u, a, n, clock)]
    /\ UNCHANGED <<legacy, clock, users, alerts, forecast, ledger, run, nsent, nticks>>

LedgerKeys == {LeadHours * Hour, LeadHours * Hour + WindowSeconds}

LedgerNext ==
    \/ LedgerAdvance
    \/ \E u \in UserIds, a \in LedgerKeys : MarkCall(u, a)
    \/ \E u \in UserIds, a \in LedgerKeys, n \in 1..CooldownHours : ProbeCall(u, a, n)

LedgerSpec == LedgerInit /\ [][LedgerNext]_vars

----------------------------------------------------------------------------
(* Properties of the dedup ledger *)

RowsFor(u, a) == {row \in ledger : row.user_id = u /\ row.alert_time = a}

\* C4: the ledger holds at most one row per (user_id, alert_time) pair, and a
\* call of mark_alert_sent never removes a row or changes its sent_at: a row
\* that is there stays there with the timestamp it was first given.
C4_LedgerInsertIfAbsent ==
    /\ [](\A u \in UserIds, a \in BucketKeys : Cardinality(RowsFor(u, a)) <= 1)
    /\ [][\A row \in ledger : row \in ledger']_vars

\* C4 witness: mark_alert_sent has just been called for a pair that already had
\* a row, an hour old or more, and the row still carries its first timestamp.
C4_Witness ==
    /\ probe.op = "mark"
    /\ probe.result
    /\ \E row \in RowsFor(probe.user_id, probe.alert_time) :
          clock - row.sent_at.secs >= Hour

\* C5: has_sent_alert_in_past_n_hours(user, bucket, n) is true iff a record for
\* (user, bucket) exists whose sent_at lies less than n hours before now; no
\* record gives false, a record exactly n hours old gives false, and a record
\* one second younger than that gives true.
C5_CooldownCheck ==
    probe.op = "has_sent" =>
        LET rows == RowsFor(probe.user_id, probe.alert_time)
            limit == probe.n * Hour
        IN  /\ probe.result =
                  (\E row \in rows : row.sent_at.valid /\ clock - row.sent_at.secs < limit)
            /\ (rows = {} => ~probe.result)
            /\ (\A row \in rows : clock - row.sent_at.secs = limit => ~probe.result)
            /\ (\A row \in rows : clock - row.sent_at.secs = limit - 1 => probe.result)

\* C5 witness: a record exactly n hours old has been probed.
C5_Witness ==
    /\ probe.op = "has_sent"
    /\ \E row \in RowsFor(probe.user_id, probe.alert_time) :
          clock - row.sent_at.secs = probe.n * Hour

----------------------------------------------------------------------------
(* Properties of the sunny rule *)

\* The messages of run r: the users it has sent a message to.
Notified(r) == {u \in UserIds : run[r].last[u].some}

\* C7: a sunny notification is sent for a forecast pair (t, code) only if
\* code = 0, t is strictly later than the run's now, and t - 2h is not earlier
\* than the run's now.
C7_SunnyRuleSafety ==
    \A r \in RunIds : \A u \in Notified(r) :
        LET m == run[r].last[u]
        IN  /\ m.code = 0
            /\ m.t > run[r].now
            /\ m.t - LeadHours * Hour >= run[r].now

\* C7 witness: a notification for an hour whose alert time is exactly the
\* run's now (offset 0).
C7_Witness ==
    \E r \in RunIds : \E u \in Notified(r) :
        run[r].last[u].t - LeadHours * Hour = run[r].now

\* The positions of the series that hold a clear-sky hour.
ClearHours == {k \in 1..Len(forecast) : forecast[k].time.valid /\ forecast[k].weather_code = 0}

\* The instant t - 2h lies in the notify window of a run whose now is `now`.
InWindow(t, now) ==
    /\ t - LeadHours * Hour >= now
    /\ t - LeadHours * Hour <= now + WindowSeconds

Truncated(t) == (t \div Hour) * Hour

RowsOf(u) == {row \in ledger : row.user_id = u}

\* No record of (u, a) has outlived the cooldown.
Fresh(u, a) ==
    \A row \in RowsFor(u, a) : clock - row.sent_at.secs < CooldownHours * Hour

\* C1: with one clear-sky hour H in the series and H - 2h inside the window of
\* a completed run that evaluated the user, and as long as the time stays
\* within the cooldown of the record of the first send, the user has been sent
\* exactly one notification for H and the ledger holds exactly one record for
\* the user, keyed by H truncated to the hour, however many runs there were.
C1_Idempotence ==
    \A r \in RunIds, u \in UserIds :
        (/\ run[r].pc = "done"
         /\ run[r].fetched[u] = "evaluated"
         /\ Cardinality(ClearHours) = 1)
        => LET H == forecast[CHOOSE k \in ClearHours : TRUE].time.secs
           IN  (InWindow(H, run[r].now) /\ Fresh(u, Truncated(H)))
               => /\ nsent[<<u, Truncated(H)>>] = 1
                  /\ Cardinality(RowsOf(u)) = 1
                  /\ \A row \in RowsOf(u) : row.alert_time = Truncated(H)

\* C1 witness: the third run in a row has evaluated the user inside the window
\* and within the cooldown, some time after the record was written.
C1_Witness ==
    \E r \in RunIds, u \in UserIds :
        /\ run[r].pc = "done"
        /\ run[r].tick >= 3
        /\ run[r].fetched[u] = "evaluated"
        /\ Cardinality(ClearHours) = 1
        /\ LET H == forecast[CHOOSE k \in ClearHours : TRUE].time.secs
           IN  /\ InWindow(H, run[r].now)
               /\ Fresh(u, Truncated(H))
               /\ \E row \in RowsFor(u, Truncated(H)) : row.sent_at.secs < run[r].now
               /\ nsent[<<u, Truncated(H)>>] = 1

\* C2 as claimed: over sequential runs a user is sent at most one notification
\* per (user, bucket key), whatever the spacing of the runs.
C2_AtMostOneSend ==
    \A u \in UserIds, a \in BucketKeys : nsent[<<u, a>>] <= 1

\* C2 as amended: over sequential runs a second or later notification for a
\* (user, bucket key) is sent only when the pair's ledger record is at least
\* the cooldown (2 hours) old.
C2_AtMostOneSendPerCooldown ==
    \A r \in RunIds : \A u \in Notified(r) :
        LET m == run[r].last[u]
        IN  m.nth >= 2 =>
               \E row \in RowsFor(u, m.bucket) :
                   m.at - row.sent_at.secs >= CooldownHours * Hour

\* C2 witness: a second notification for the same (user, bucket key).
C2_Witness ==
    \E r \in RunIds : \E u \in Notified(r) :
        /\ run[r].last[u].nth = 2
        /\ run[r].pc = "done"

\* C3 as claimed: with overlapping runs a user is still sent at most one
\* notification per (user, bucket key) (unless the pair's record has outlived
\* the cooldown, the case of sequential runs).
C3_OverlapAtMostOne ==
    \A u \in UserIds, a \in BucketKeys : nsent[<<u, a>>] <= 1 \/ ~Fresh(u, a)

\* C3 as amended: with overlapping runs the atomic insert keeps the ledger at
\* one row per (user, bucket key), and within the cooldown a user is sent at
\* most one notification per (user, bucket key) for each run that was started.
C3_OverlapOnePerRun ==
    \A u \in UserIds, a \in BucketKeys :
        /\ Cardinality(RowsFor(u, a)) <= 1
        /\ (nsent[<<u, a>>] <= nticks \/ ~Fresh(u, a))

\* C3 witness: two overlapping runs have both sent for the same (user, bucket
\* key) and both have marked it; the ledger holds one fresh row.
C3_Witness ==
    \E u \in UserIds, a \in BucketKeys :
        /\ nsent[<<u, a>>] = 2
        /\ Cardinality(RowsFor(u, a)) = 1
        /\ Fresh(u, a)
        /\ \A r \in RunIds : run[r].pc = "done" /\ run[r].last[u].some

\* The series is the single pair (t0, clear sky).
SingleClear == Len(forecast) = 1 /\ ClearHours = {1}

\* C6 as claimed: on an empty ledger, the series [(t0 = now + 1h, code 0)]
\* makes one run send the evaluated user exactly one notification.
C6_ScenarioOneHourAhead ==
    \A r \in RunIds, u \in UserIds :
        (/\ run[r].pc = "done"
         /\ run[r].tick = 1
         /\ run[r].fetched[u] = "evaluated"
         /\ SingleClear)
        => (forecast[1].time.secs = run[r].now + Hour => run[r].nsent[u] = 1)

\* C6 as amended: on an empty ledger, the series [(t0, code 0)] with
\* now + 2h <= t0 <= now + 4h makes one run send the evaluated user exactly one
\* notification, naming t0's HH:MM, and leaves exactly one ledger row for the
\* user, for the bucket t0 truncated to the hour; with t0 = now + 1h nothing is
\* sent and no row is left.
C6_ScenarioInWindow ==
    \A r \in RunIds, u \in UserIds :
        (/\ run[r].pc = "done"
         /\ run[r].tick = 1
         /\ run[r].fetched[u] = "evaluated"
         /\ SingleClear)
        => LET t0 == forecast[1].time.secs
           IN  /\ (t0 >= run[r].now + 2 * Hour /\ t0 <= run[r].now + 4 * Hour)
                   => /\ run[r].nsent[u] = 1
                      /\ nsent[<<u, Truncated(t0)>>] = 1
                      /\ run[r].last[u].some
                      /\ run[r].last[u].text_time = <<(t0 \div Hour) % 24, (t0 \div 60) % 60>>
                      /\ RowsOf(u) # {}
                      /\ \A row \in RowsOf(u) : row.alert_time = Truncated(t0)
                      /\ Cardinality(RowsOf(u)) = 1
               /\ t0 = run[r].now + Hour
                   => /\ run[r].nsent[u] = 0
                      /\ RowsOf(u) = {}

\* C6 witness: the scenario with t0 inside the window and off the full hour.
C6_Witness ==
    \E r \in RunIds, u \in UserIds :
        /\ run[r].pc = "done"
        /\ run[r].tick = 1
        /\ run[r].fetched[u] = "evaluated"
        /\ SingleClear
        /\ forecast[1].time.secs > run[r].now + 2 * Hour
        /\ forecast[1].time.secs < run[r].now + 4 * Hour
        /\ forecast[1].time.secs % Hour # 0
        /\ run[r].nsent[u] = 1

\* C8 as claimed: the window is open at its upper bound: no notification is
\* sent for an hour t with t - 2h exactly 7200 seconds after the run's now.
C8_WindowOpenAbove ==
    \A r \in RunIds : \A u \in Notified(r) :
        run[r].last[u].t - LeadHours * Hour - run[r].now < 7200

\* C8 as amended: the window is closed at both bounds: no notification is sent
\* for an hour t with t - 2h more than 7200 seconds after the run's now, and on
\* an empty ledger a clear-sky hour with t - 2h exactly 7200 seconds after now
\* (t = now + 4h) does produce a notification.
C8_WindowClosedAbove ==
    /\ \A r \in RunIds : \A u \in Notified(r) :
          run[r].last[u].t - LeadHours * Hour - run[r].now <= 7200
    /\ \A r \in RunIds, u \in UserIds :
          (/\ run[r].pc = "done"
           /\ run[r].tick = 1
           /\ run[r].fetched[u] = "evaluated")
          => \A k \in ClearHours :
                forecast[k].time.secs = run[r].now + 4 * Hour
                    => nsent[<<u, Truncated(forecast[k].time.secs)>>] >= 1

\* C8 witness: a notification for t = now + 4h has been sent.
C8_Witness ==
    \E r \in RunIds : \E u \in Notified(r) :
        run[r].last[u].t = run[r].now + 4 * Hour

\* C9: every sunny notification for forecast hour t is sent at time t - 2h.
C9_SentTwoHoursBefore ==
    \A r \in RunIds : \A u \in Notified(r) :
        run[r].last[u].at = run[r].last[u].t - 2 * Hour

\* C10: a run never ends before every candidate of its batch has been visited,
\* whatever happened to the candidates before.
C10_FailureIsolation ==
    \A r \in RunIds :
        run[r].pc \in {"done", "crashed"}
            => \A i \in 1..Len(run[r].users) :
                  run[r].fetched[run[r].users[i].user_id] # "unvisited"

----------------------------------------------------------------------------
(* The subscription store on its own (bot/utils/db.py): direct calls of    *)
(* save_user_location, save_alert and deactivate_user_alerts in any order. *)
(* probe records the last call (op, user_id, args) together with the       *)
(* tables as they were before it (users, alerts).                          *)

MaxAlerts == 3      \* rows in the alerts table

\* (lat, lon, location_name) triples a user may share
Locations == {<<1, 1, "home">>, <<2, 2, "work">>}

\* (alert_type, alert_time, conditions) triples the sunny and rain/UV buttons
\* store; the single-file bot stores its sunny alert with trigger "09:00".
\* The store treats the three strings as opaque, so the forecast-change
\* triple adds no case of its own.
AlertArgs ==
    {<<"sunny", "next_sunny_hour", "clear_sky">>,
     <<"sunny", "09:00", "clear_sky">>,
     <<"rain_uv", "08:00", "rain_or_high_uv">>}

\* the HH:MM strings the alerts table may be queried with
TriggerTimes == {"08:00", "09:00", "12:00"}

\* Plain INSERT without the primary key: the old row stays.
save_user_location_insert(us, user_id, username, lat, lon, location_name) ==
    us \cup {[user_id |-> user_id, username |-> username, location_lat |-> lat,
              location_lon |-> lon, location_name |-> location_name]}

\* INSERT OR REPLACE INTO users (...): a row with the same primary key is
\* deleted before the new row is inserted
save_user_location(us, user_id, username, lat, lon, location_name) ==
    {row \in us : row.user_id # user_id}
        \cup {[user_id |-> user_id, username |-> username, location_lat |-> lat,
               location_lon |-> lon, location_name |-> location_name]}

\* get_user_location: None when fetchone() finds no row
NoLocation == <<>>

get_user_location(us, user_id) ==
    LET result == {row \in us : row.user_id = user_id}
    IN  IF result = {} THEN NoLocation
        ELSE LET row == CHOOSE row \in result : TRUE
             IN  <<row.location_lat, row.location_lon, row.location_name>>

\* the id an AUTOINCREMENT column gives the next row
NextId(al) == IF al = <<>> THEN 1 ELSE al[Len(al)].id + 1

\* An insert that skips a subscription the user already has.
save_alert_dedup(al, user_id, alert_type, alert_time, conditions) ==
    IF \E i \in 1..Len(al) :
          /\ al[i].user_id = user_id /\ al[i].alert_type = alert_type
          /\ al[i].alert_time = alert_time /\ al[i].conditions = conditions
          /\ al[i].active = 1
    THEN al
    ELSE Append(al, AlertRow(NextId(al), user_id, alert_type, alert_time, conditions, 1))

\* INSERT INTO alerts (user_id, alert_type, alert_time, conditions): id is
\* AUTOINCREMENT, active takes its DEFAULT 1
save_alert(al, user_id, alert_type, alert_time, conditions) ==
    Append(al, AlertRow(NextId(al), user_id, alert_type, alert_time, conditions, 1))

RECURSIVE ScanActive(_, _, _)
\* the rows of al from position i on that match WHERE user_id = ? AND active = 1,
\* projected on (alert_type, alert_time, conditions), in table (rowid) order
ScanActive(al, user_id, i) ==
    IF i > Len(al) THEN <<>>
    ELSE IF al[i].user_id = user_id /\ al[i].active = 1
         THEN <<(<<al[i].alert_type, al[i].alert_time, al[i].conditions>>)>>
                  \o ScanActive(al, user_id, i + 1)
         ELSE ScanActive(al, user_id, i + 1)

\* The scan with ORDER BY id DESC.
get_user_alerts_desc(al, user_id) ==
    LET s == ScanActive(al, user_id, 1)
    IN  [i \in 1..Len(s) |-> s[Len(s) + 1 - i]]

\* SELECT alert_type, alert_time, conditions FROM alerts
\* WHERE user_id = ? AND active = 1; fetchall() of a scan of the table
get_user_alerts(al, user_id) == ScanActive(al, user_id, 1)

\* DELETE FROM alerts WHERE user_id = ? in place of the update.
deactivate_user_alerts_delete(al, user_id) ==
    SelectSeq(al, LAMBDA row : row.user_id # user_id)

\* SET active = 1 - active in place of SET active = 0.
deactivate_user_alerts_toggle(al, user_id) ==
    [i \in 1..Len(al) |->
        IF al[i].user_id = user_id THEN [al[i] EXCEPT !.active = 1 - @] ELSE al[i]]

\* UPDATE alerts SET active = 0 WHERE user_id = ?
deactivate_user_alerts(al, user_id) ==
    [i \in 1..Len(al) |->
        IF al[i].user_id = user_id THEN [al[i] EXCEPT !.active = 0] ELSE al[i]]

\* The query on the alerts table alone, without the join on users.
get_alerts_to_send_no_join(us, al, current_time) ==
    {<<al[i].user_id, 0, 0, "", al[i].alert_type>> :
        i \in {j \in 1..Len(al) : al[j].alert_time = current_time /\ al[j].active = 1}}

\* SELECT DISTINCT u.user_id, u.location_lat, u.location_lon, u.location_name,
\* a.alert_type FROM users u JOIN alerts a ON u.user_id = a.user_id
\* WHERE a.alert_time = ? AND a.active = 1; the result as a set of rows
get_alerts_to_send(us, al, current_time) ==
    {<<p[1].user_id, p[1].location_lat, p[1].location_lon, p[1].location_name,
       al[p[2]].alert_type>> :
        p \in {q \in us \X (1..Len(al)) :
                  /\ q[1].user_id = al[q[2]].user_id
                  /\ al[q[2]].alert_time = current_time
                  /\ al[q[2]].active = 1}}

StoreInit ==
    /\ clock = 0
    /\ users = {}
    /\ alerts = <<>>
    /\ forecast = <<>>
    /\ ledger = {}
    /\ run = [r \in RunIds |-> IdleRun]
    /\ nsent = [k \in UserIds \X BucketKeys |-> 0]
    /\ nticks = 0
    /\ probe = NoProbe
    /\ legacy = NoLegacy

StoreCall(op, u, args) ==
    [op |-> op, user_id |-> u, args |-> args, users |-> users, alerts |-> alerts]

SaveLocation(u, loc) ==
    /\ users' = save_user_location(users, u, "u", loc[1], loc[2], loc[3])
    /\ probe' = StoreCall("save_user_location", u, loc)
    /\ UNCHANGED <<legacy, clock, alerts, forecast, ledger, run, nsent, nticks>>

SaveAlert(u, args) ==
    /\ Len(alerts) < MaxAlerts
    /\ alerts' = save_alert(alerts, u, args[1], args[2], args[3])
    /\ probe' = StoreCall("save_alert", u, args)
    /\ UNCHANGED <<legacy, clock, users, forecast, ledger, run, nsent, nticks>>

Deactivate(u) ==
    /\ alerts' = deactivate_user_alerts(alerts, u)
    /\ probe' = StoreCall("deactivate_user_alerts", u, <<>>)
    /\ UNCHANGED <<legacy, clock, users, forecast, ledger, run, nsent, nticks>>

StoreNext ==
    \/ \E u \in UserIds, loc \in Locations : SaveLocation(u, loc)
    \/ \E u \in UserIds, args \in AlertArgs : SaveAlert(u, args)
    \/ \E u \in UserIds : Deactivate(u)

StoreSpec == StoreInit /\ [][StoreNext]_vars

----------------------------------------------------------------------------
(* Properties of the subscription store *)

HasLocation(u) == \E row \in users : row.user_id = u

QueryTimes == TriggerTimes \cup {"next_sunny_hour"}

AlertKinds == {args[1] : args \in AlertArgs}

\* whether the alerts table holds an active row of user u with this kind and,
\* when at is not "any", this trigger
HasActive(u, kind, at) ==
    \E i \in 1..Len(alerts) :
        /\ alerts[i].user_id = u
        /\ alerts[i].alert_type = kind
        /\ alerts[i].active = 1
        /\ at # "any" => alerts[i].alert_time = at

\* C11: a user without a users row (no saved location) is in no candidate
\* list, whatever subscription rows the user has: neither in the result of
\* get_sunny_alert_users nor in get_alerts_to_send for any trigger time.
C11_NoLocationNeverCandidate ==
    \A u \in UserIds :
        ~HasLocation(u)
        => /\ \A row \in get_sunny_alert_users(users, alerts) : row.user_id # u
           /\ \A hm \in QueryTimes :
                 \A row \in get_alerts_to_send(users, alerts, hm) : row[1] # u

\* C11 witness: a user without location holds an active sunny subscription
\* and an active 08:00 subscription, while the other user, who has a
\* location, is a candidate.
C11_Witness ==
    \E u, v \in UserIds :
        /\ ~HasLocation(u)
        /\ HasActive(u, "sunny", "any")
        /\ HasActive(u, "rain_uv", "08:00")
        /\ HasLocation(v)
        /\ \E row \in get_alerts_to_send(users, alerts, "08:00") : row[1] = v

\* C12: get_sunny_alert_users returns a user exactly when the user has a
\* users row and some active sunny subscription; get_alerts_to_send(hm)
\* returns (user, kind) exactly when the user has a users row and some active
\* subscription of that kind with trigger hm, and the row carries the stored
\* location.
C12_CandidateExactness ==
    /\ \A u \in UserIds :
          (\E row \in get_sunny_alert_users(users, alerts) : row.user_id = u)
          <=> (HasLocation(u) /\ HasActive(u, "sunny", "any"))
    /\ \A u \in UserIds, kind \in AlertKinds, hm \in QueryTimes :
          (\E row \in get_alerts_to_send(users, alerts, hm) :
                row[1] = u /\ row[5] = kind)
          <=> (HasLocation(u) /\ HasActive(u, kind, hm))
    /\ \A hm \in QueryTimes :
          \A row \in get_alerts_to_send(users, alerts, hm) :
              <<row[2], row[3], row[4]>> = get_user_location(users, row[1])

\* C12 witness: a located user whose only sunny subscription is inactive and
\* who holds an active subscription of another kind is not a sunny candidate,
\* while another located user with an active sunny subscription is.
C12_Witness ==
    \E u, v \in UserIds :
        /\ HasLocation(u) /\ HasLocation(v)
        /\ \E i \in 1..Len(alerts) :
              /\ alerts[i].user_id = u
              /\ alerts[i].alert_type = "sunny"
              /\ alerts[i].active = 0
        /\ HasActive(u, "rain_uv", "08:00")
        /\ ~HasActive(u, "sunny", "any")
        /\ \A row \in get_sunny_alert_users(users, alerts) : row.user_id # u
        /\ \E row \in get_sunny_alert_users(users, alerts) : row.user_id = v

\* C13: right after deactivate_user_alerts(U), get_user_alerts(U) is empty and
\* every row the table held for U before the call is still there, under the
\* same id, unchanged but for active = 0; the table has as many rows as before.
C13_DeactivateKeepsRows ==
    probe.op = "deactivate_user_alerts"
    => /\ get_user_alerts(alerts, probe.user_id) = <<>>
       /\ Len(alerts) = Len(probe.alerts)
       /\ \A i \in 1..Len(probe.alerts) :
             probe.alerts[i].user_id = probe.user_id
             => \E j \in 1..Len(alerts) :
                   alerts[j] = [probe.alerts[i] EXCEPT !.active = 0]

\* C13 witness: the call found two active subscriptions of the user.
C13_Witness ==
    /\ probe.op = "deactivate_user_alerts"
    /\ Len(get_user_alerts(probe.alerts, probe.user_id)) >= 2
    /\ get_user_alerts(alerts, probe.user_id) = <<>>

\* C14: after deactivate_user_alerts(U) every subscription row of U, of every
\* kind, is inactive, and a second call for U right after the first changes
\* neither table.
C14_DeactivateIdempotent ==
    /\ [](probe.op = "deactivate_user_alerts"
          => \A i \in 1..Len(alerts) :
                alerts[i].user_id = probe.user_id => alerts[i].active = 0)
    /\ [][(/\ probe.op = "deactivate_user_alerts"
           /\ probe'.op = "deactivate_user_alerts"
           /\ probe'.user_id = probe.user_id)
          => (alerts' = alerts /\ users' = users)]_vars

\* C14 witness: a second call in a row for a user with subscriptions of two
\* kinds, all inactive, has left the table as it found it.
C14_Witness ==
    /\ probe.op = "deactivate_user_alerts"
    /\ probe.alerts = alerts
    /\ \E i, j \in 1..Len(alerts) :
          /\ alerts[i].user_id = probe.user_id
          /\ alerts[j].user_id = probe.user_id
          /\ alerts[i].alert_type # alerts[j].alert_type
          /\ alerts[i].active = 0 /\ alerts[j].active = 0

\* C15: the users table never holds two rows for one user id; after
\* save_user_location(U, ...) get_user_location(U) returns the latitude,
\* longitude and name of that call and the answer for every other user is
\* what it was; no other operation changes any answer; before any call the
\* answer is None.
C15_LocationUpsert ==
    /\ \A u \in UserIds : Cardinality({row \in users : row.user_id = u}) <= 1
    /\ probe.op = "none"
       => \A u \in UserIds : get_user_location(users, u) = NoLocation
    /\ probe.op = "save_user_location"
       => /\ get_user_location(users, probe.user_id) = probe.args
          /\ \A v \in UserIds \ {probe.user_id} :
                get_user_location(users, v) = get_user_location(probe.users, v)
    /\ probe.op \in {"save_alert", "deactivate_user_alerts"}
       => \A v \in UserIds :
             get_user_location(users, v) = get_user_location(probe.users, v)

\* C15 witness: the call replaced a different location of the same user.
C15_Witness ==
    /\ probe.op = "save_user_location"
    /\ get_user_location(probe.users, probe.user_id) # NoLocation
    /\ get_user_location(probe.users, probe.user_id) # probe.args
    /\ get_user_location(users, probe.user_id) = probe.args
    /\ Cardinality({row \in users : row.user_id = probe.user_id}) = 1

\* C16: every save_alert call adds one active row with an id no other row
\* has, whatever rows the table already holds, and get_user_alerts returns
\* one subscription more, the new one last.
C16_NoDedup ==
    /\ \A i, j \in 1..Len(alerts) : i # j => alerts[i].id # alerts[j].id
    /\ probe.op = "save_alert"
       => LET before == get_user_alerts(probe.alerts, probe.user_id)
              after == get_user_alerts(alerts, probe.user_id)
          IN  /\ Len(alerts) = Len(probe.alerts) + 1
              /\ alerts[Len(alerts)].active = 1
              /\ alerts[Len(alerts)].user_id = probe.user_id
              /\ after = Append(before, probe.args)

\* C16 witness: three identical calls for one user have left three active
\* rows and get_user_alerts returns the same subscription three times.
C16_Witness ==
    /\ probe.op = "save_alert"
    /\ Len(alerts) >= 2
    /\ \A i \in 1..2 :
          /\ alerts[i].user_id = probe.user_id
          /\ alerts[i].active = 1
          /\ <<alerts[i].alert_type, alerts[i].alert_time, alerts[i].conditions>>
                = probe.args
    /\ Len(get_user_alerts(alerts, probe.user_id)) >= 3
    /\ \A k \in 1..3 : get_user_alerts(alerts, probe.user_id)[k] = probe.args

\* positions of the active rows of user u, the table being in insertion order
ActiveRows(u) ==
    {i \in 1..Len(alerts) : alerts[i].user_id = u /\ alerts[i].active = 1}

----------------------------------------------------------------------------
(* weather_bot.py: the alert rules of the single-file bot, and             *)
(* get_recommendations of bot/handlers/commands.py.                        *)
(*                                                                         *)
(* A value looked up in the provider's JSON is a record [kind, v]: a       *)
(* number, a missing key ("absent"), a JSON null ("null") or the string    *)
(* 'N/A' ("str").  A message text is the sequence of its parts; the empty  *)
(* sequence is the empty string.                                           *)

Num(v) == [kind |-> "num", v |-> v]
Absent == [kind |-> "absent", v |-> 0]
Null == [kind |-> "null", v |-> 0]
NotAvailable == [kind |-> "str", v |-> 0]

\* precipitation probabilities (percent) and UV indices around the thresholds
Probabilities == {0, 30, 31, 60, 61, 100}
UvValues == {0, 2, 3, 5, 6, 11}

\* the 'current' and 'daily' objects of a forecast response
EmptyCurrent == [empty |-> TRUE, precipitation_probability |-> Absent, uv_index |-> Absent]
Currents ==
    {EmptyCurrent} \cup
    [empty : {FALSE},
     precipitation_probability : {Absent, Null} \cup {Num(p) : p \in Probabilities},
     uv_index : {Absent, Null} \cup {Num(v) : v \in UvValues}]

EmptyDaily == [empty |-> TRUE, weather_code |-> <<>>]
Dailies == {EmptyDaily} \cup [empty : {FALSE}, weather_code : {<<0>>, <<3>>}]

\* what get_weather_data returns: None (ok = FALSE) or the response
NoWeather == [ok |-> FALSE, current |-> EmptyCurrent, daily |-> EmptyDaily]
WeatherData == {NoWeather} \cup [ok : {TRUE}, current : Currents, daily : Dailies]

\* dict.get(key, default) with a numeric default
Get(x, default) == IF x.kind = "absent" THEN Num(default) ELSE x

\* the rule with >= in place of > for the strong umbrella advice
generate_rain_uv_alert_ge(weather_data) ==
    LET current == weather_data.current
        daily == weather_data.daily
        precip_prob == Get(current.precipitation_probability, 0)
        uv_index == Get(current.uv_index, 0)
        rain == IF precip_prob.v >= 60
                THEN <<"High chance of rain - bring an umbrella!">>
                ELSE IF precip_prob.v > 30
                     THEN <<"Possible rain - consider bringing an umbrella">>
                     ELSE <<>>
        uv == IF uv_index.v >= 6
              THEN <<"High UV index - apply sunscreen!">>
              ELSE IF uv_index.v >= 3
                   THEN <<"Moderate UV - consider sunscreen">>
                   ELSE <<>>
    IN  IF current.empty \/ daily.empty THEN <<>>
        ELSE IF precip_prob.kind # "num" \/ uv_index.kind # "num" THEN <<>>
        ELSE IF rain \o uv # <<>>
             THEN <<"Daily Weather Reminder">> \o rain \o uv
             ELSE <<>>

\* generate_rain_uv_alert: a comparison of None with a number raises
\* TypeError, which the function's except clause turns into ""
generate_rain_uv_alert(weather_data) ==
    LET current == weather_data.current
        daily == weather_data.daily
        precip_prob == Get(current.precipitation_probability, 0)
        uv_index == Get(current.uv_index, 0)
        rain == IF precip_prob.v > 60
                THEN <<"High chance of rain - bring an umbrella!">>
                ELSE IF precip_prob.v > 30
                     THEN <<"Possible rain - consider bringing an umbrella">>
                     ELSE <<>>
        uv == IF uv_index.v >= 6
              THEN <<"High UV index - apply sunscreen!">>
              ELSE IF uv_index.v >= 3
                   THEN <<"Moderate UV - consider sunscreen">>
                   ELSE <<>>
    IN  IF current.empty \/ daily.empty THEN <<>>
        ELSE IF precip_prob.kind # "num" \/ uv_index.kind # "num" THEN <<>>
        ELSE IF rain \o uv # <<>>
             THEN <<"Daily Weather Reminder">> \o rain \o uv
             ELSE <<>>

\* generate_sunny_alert: today's daily weather code in [0, 1, 2]
generate_sunny_alert(weather_data) ==
    LET daily == weather_data.daily
    IN  IF daily.empty \/ daily.weather_code = <<>> THEN <<>>
        ELSE IF daily.weather_code[1] \in {0, 1, 2}
             THEN <<"Sunny Weather Alert!">>
             ELSE <<>>

\* generate_forecast_change_alert: the same text whatever the forecast
generate_forecast_change_alert(weather_data) == <<"Forecast Update">>

\* send_alert: the messages it hands to bot.send_message
send_alert(user_id, alert_type, weather_data) ==
    IF ~weather_data.ok THEN {}
    ELSE LET message ==
                 IF alert_type = "sunny" THEN generate_sunny_alert(weather_data)
                 ELSE IF alert_type = "rain_uv"
                      THEN generate_rain_uv_alert(weather_data)
                      ELSE IF alert_type = "forecast_change"
                           THEN generate_forecast_change_alert(weather_data)
                           ELSE <<>>
         IN  IF message # <<>> THEN {[chat_id |-> user_id, text |-> message]} ELSE {}

\* weather codes that select each branch of get_recommendations, and one
\* that selects none
WeatherCodes == {0, 45, 65, 95, 71}

\* isinstance(x, int | float)
IsNumber(x) == x.kind = "num"

\* get_recommendations (commands.py; weather_bot.py has the same function)
get_recommendations(weather_code, precip_prob, uv_index) ==
    LET rain == IF IsNumber(precip_prob) /\ precip_prob.v > 60
                THEN <<"Take an umbrella">>
                ELSE IF IsNumber(precip_prob) /\ precip_prob.v > 30
                     THEN <<"Consider bringing an umbrella">>
                     ELSE <<>>
        uv == IF IsNumber(uv_index)
              THEN IF uv_index.v >= 6 THEN <<"Apply sunscreen (high UV)">>
                   ELSE IF uv_index.v >= 3
                        THEN <<"Consider sunscreen (moderate UV)">>
                        ELSE <<>>
              ELSE <<>>
        code == IF weather_code \in {45, 48}
                THEN <<"Drive carefully - reduced visibility">>
                ELSE IF weather_code \in {65, 67, 82}
                     THEN <<"Stay indoors if possible">>
                     ELSE IF weather_code \in {95, 96, 99}
                          THEN <<"Avoid outdoor activities">>
                          ELSE IF weather_code \in {71, 73, 75, 85, 86}
                               THEN <<"Dress warmly and watch for ice">>
                               ELSE <<>>
        recommendations == rain \o uv \o code
    IN  IF recommendations # <<>> THEN recommendations
        ELSE <<"No special recommendations">>

(* Direct calls of send_alert and get_recommendations.  probe records the  *)
(* call; legacy.outbox holds what the last send_alert call sent.           *)

AdviceInit ==
    /\ clock = 0
    /\ users = {}
    /\ alerts = <<>>
    /\ forecast = <<>>
    /\ ledger = {}
    /\ run = [r \in RunIds |-> IdleRun]
    /\ nsent = [k \in UserIds \X BucketKeys |-> 0]
    /\ nticks = 0
    /\ probe = NoProbe
    /\ legacy = NoLegacy

SendAlertCall(u, alert_type, weather_data) ==
    /\ legacy' = [legacy EXCEPT !.outbox = send_alert(u, alert_type, weather_data)]
    /\ probe' = [op |-> "send_alert", user_id |-> u, alert_type |-> alert_type,
                 weather_data |-> weather_data]
    /\ UNCHANGED <<clock, users, alerts, forecast, ledger, run, nsent, nticks>>

RecommendCall(weather_code, precip_prob, uv_index) ==
    /\ probe' = [op |-> "get_recommendations", weather_code |-> weather_code,
                 precip_prob |-> precip_prob, uv_index |-> uv_index,
                 result |-> get_recommendations(weather_code, precip_prob, uv_index)]
    /\ UNCHANGED <<clock, users, alerts, forecast, ledger, run, nsent, nticks, legacy>>

AlertTypes == {"sunny", "rain_uv", "forecast_change"}

AdviceNext ==
    \/ \E u \in {1}, alert_type \in AlertTypes, weather_data \in WeatherData :
          SendAlertCall(u, alert_type, weather_data)
    \/ \E weather_code \in WeatherCodes,
          precip_prob \in {NotAvailable} \cup {Num(p) : p \in Probabilities},
          uv_index \in {NotAvailable} \cup {Num(v) : v \in UvValues} :
          RecommendCall(weather_code, precip_prob, uv_index)

AdviceSpec == AdviceInit /\ [][AdviceNext]_vars

----------------------------------------------------------------------------
(* Properties of the rain/UV and forecast-change rules *)

Has(text, line) == \E i \in 1..Len(text) : text[i] = line

\* the text of the message the last send_alert call sent, "" if it sent none
SentText ==
    IF legacy.outbox = {} THEN <<>>
    ELSE (CHOOSE m \in legacy.outbox : TRUE).text

\* C18: for a rain/UV alert on a response with numeric precipitation
\* probability p and UV index v, the message carries the strong umbrella
\* advice exactly when p > 60 (so at 61) and the weak one exactly when
\* 30 < p <= 60 (at 31, not at 30), the strong sunscreen advice exactly when
\* v >= 6 and the weak one exactly when 3 <= v < 6 (at 3, not at 2); when
\* p <= 30 and v < 3 there is no message and nothing is sent.
\* get_recommendations uses the same thresholds.
C18_RainUvThresholds ==
    /\ (/\ probe.op = "send_alert"
        /\ probe.alert_type = "rain_uv"
        /\ probe.weather_data.ok
        /\ ~probe.weather_data.current.empty
        /\ ~probe.weather_data.daily.empty
        /\ probe.weather_data.current.precipitation_probability.kind = "num"
        /\ probe.weather_data.current.uv_index.kind = "num")
       => LET p == probe.weather_data.current.precipitation_probability.v
              v == probe.weather_data.current.uv_index.v
          IN  /\ Has(SentText, "High chance of rain - bring an umbrella!") <=> p >= 61
              /\ Has(SentText, "Possible rain - consider bringing an umbrella")
                    <=> (p >= 31 /\ p <= 60)
              /\ Has(SentText, "High UV index - apply sunscreen!") <=> v >= 6
              /\ Has(SentText, "Moderate UV - consider sunscreen")
                    <=> (v >= 3 /\ v <= 5)
              /\ (p <= 30 /\ v <= 2) <=> legacy.outbox = {}
              /\ \A m \in legacy.outbox : m.chat_id = probe.user_id
    /\ (/\ probe.op = "get_recommendations"
        /\ probe.precip_prob.kind = "num"
        /\ probe.uv_index.kind = "num")
       => LET p == probe.precip_prob.v
              v == probe.uv_index.v
          IN  /\ Has(probe.result, "Take an umbrella") <=> p >= 61
              /\ Has(probe.result, "Consider bringing an umbrella")
                    <=> (p >= 31 /\ p <= 60)
              /\ Has(probe.result, "Apply sunscreen (high UV)") <=> v >= 6
              /\ Has(probe.result, "Consider sunscreen (moderate UV)")
                    <=> (v >= 3 /\ v <= 5)

\* C18 witness: a rain/UV alert at probability 61 and UV index 3 was sent
\* with the strong umbrella advice and the moderate sunscreen advice.
C18_Witness ==
    /\ probe.op = "send_alert"
    /\ probe.alert_type = "rain_uv"
    /\ probe.weather_data.ok
    /\ probe.weather_data.current.precipitation_probability = Num(61)
    /\ probe.weather_data.current.uv_index = Num(3)
    /\ SentText = <<"Daily Weather Reminder",
                    "High chance of rain - bring an umbrella!",
                    "Moderate UV - consider sunscreen">>

----------------------------------------------------------------------------
(* weather_bot.py: the minute scheduler.  run() starts run_scheduler in a  *)
(* thread of its own; every minute schedule.run_pending() calls            *)
(* check_and_send_alerts in that thread, which has no running event loop.  *)

MaxSubscriptions == 2   \* rows in the alerts table of the single-file bot

\* (alert_type, alert_time, conditions) triples the single-file bot stores
LegacyArgs ==
    {<<"sunny", "09:00", "clear_sky">>,
     <<"rain_uv", "08:00", "rain_or_high_uv">>,
     <<"forecast_change", "18:00", "any_change">>}

\* the wall-clock instants at which the modelled ticks fall
LegacyInstants == {8 * Hour - 60, 8 * Hour, 9 * Hour, 18 * Hour}

\* datetime.now().strftime("%H:%M") at the modelled instants
strftime_hhmm(t) ==
    CASE t % Day = 8 * Hour - 60 -> "07:59"
      [] t % Day = 8 * Hour -> "08:00"
      [] t % Day = 9 * Hour -> "09:00"
      [] t % Day = 18 * Hour -> "18:00"

LegacyInit ==
    /\ clock = 8 * Hour - 60
    /\ users \in SUBSET {UserRow(u) : u \in UserIds}
    /\ \E s \in SeqsUpTo(UserIds \X LegacyArgs \X {0, 1}, MaxSubscriptions) :
          alerts = [i \in 1..Len(s) |->
                       AlertRow(i, s[i][1], s[i][2][1], s[i][2][2], s[i][2][3], s[i][3])]
    /\ forecast = <<>>
    /\ ledger = {}
    /\ run = [r \in RunIds |-> IdleRun]
    /\ nsent = [k \in UserIds \X BucketKeys |-> 0]
    /\ nticks = 0
    /\ probe = NoProbe
    /\ legacy = NoLegacy

\* check_and_send_alerts, called by schedule.run_pending() in the scheduler
\* thread: for the first row of the result asyncio.create_task raises
\* RuntimeError (no running event loop); nothing catches it, neither here nor
\* in run_pending nor in run_scheduler, so the thread ends and no send_alert
\* coroutine is ever started (legacy.tasks stays as it is).
check_and_send_alerts ==
    /\ legacy.thread = "running"
    /\ ~legacy.ticked
    /\ LET alerts_to_send == get_alerts_to_send(users, alerts, strftime_hhmm(clock))
       IN  legacy' = [legacy EXCEPT
                         !.ticked = TRUE,
                         !.triggered = alerts_to_send,
                         !.thread = IF alerts_to_send = {} THEN "running" ELSE "dead"]
    /\ nticks' = nticks + 1
    /\ UNCHANGED <<clock, users, alerts, forecast, ledger, run, nsent, probe>>

\* time.sleep(60) in run_scheduler, until the next modelled instant
Sleep ==
    /\ legacy.thread = "running"
    /\ legacy.ticked
    /\ \E t \in LegacyInstants :
          /\ t > clock
          /\ \A s \in LegacyInstants : s > clock => t <= s
          /\ clock' = t
    /\ legacy' = [legacy EXCEPT !.ticked = FALSE]
    /\ UNCHANGED <<users, alerts, forecast, ledger, run, nsent, nticks, probe>>

LegacyNext == check_and_send_alerts \/ Sleep

LegacySpec == LegacyInit /\ [][LegacyNext]_vars

\* C20: whenever the scheduler's tick finds a forecast_change subscription
\* due for a candidate user, the generic forecast-update message is handed to
\* bot.send_message for that user.
C20_ForecastChangeAlwaysEmitted ==
    \A row \in legacy.triggered :
        row[5] = "forecast_change"
        => \E m \in legacy.outbox :
              /\ m.chat_id = row[1]
              /\ m.text = generate_forecast_change_alert(NoWeather)

----------------------------------------------------------------------------
(* Several qualifying hours in one run *)

\* positions of the pairs of the series that pass the sunny rule at `now`
QualifyingAt(now) == {k \in 1..Len(forecast) : Qualifies(forecast[k], now)}

BucketOf(k) == alert_time_str(fromisoformat(forecast[k].time))

\* C19: in the first run (the ledger was empty, so nothing was suppressed),
\* once it has completed and evaluated user u: if the qualifying hours of the
\* series have pairwise distinct bucket keys, the run sent u one notification
\* per qualifying hour, and each of these hours has exactly one notification
\* and exactly one ledger record under its own key.
C19_EveryQualifyingHourNotified ==
    \A r \in RunIds, u \in UserIds :
        (/\ run[r].pc = "done"
         /\ run[r].tick = 1
         /\ run[r].fetched[u] = "evaluated"
         /\ \A j, k \in QualifyingAt(run[r].now) : j # k => BucketOf(j) # BucketOf(k))
        => /\ run[r].nsent[u] = Cardinality(QualifyingAt(run[r].now))
           /\ \A k \in QualifyingAt(run[r].now) :
                 /\ nsent[<<u, BucketOf(k)>>] = 1
                 /\ Cardinality(RowsFor(u, BucketOf(k))) = 1
           /\ Cardinality(RowsOf(u)) = Cardinality(QualifyingAt(run[r].now))

\* C19 witness: the first run found two qualifying hours with different
\* bucket keys and sent two notifications, the second for the later hour,
\* leaving two ledger records.
C19_Witness ==
    \E r \in RunIds, u \in UserIds :
        /\ run[r].pc = "done"
        /\ run[r].tick = 1
        /\ run[r].fetched[u] = "evaluated"
        /\ Cardinality(QualifyingAt(run[r].now)) = 2
        /\ \A j, k \in QualifyingAt(run[r].now) : j # k => BucketOf(j) # BucketOf(k)
        /\ run[r].nsent[u] = 2
        /\ run[r].last[u].bucket = BucketOf(2)
        /\ Cardinality(RowsOf(u)) = 2

\* the subscriptions with a fixed daily trigger
FixedTriggers == {args \in LegacyArgs : args[1] \in {"rain_uv", "forecast_change"}}

\* the send_alert evaluations started so far for (u, kind)
StartedFor(u, kind) ==
    {task \in legacy.tasks : task.user_id = u /\ task.alert_type = kind}

\* C21: once the scheduler has ticked at the trigger minute of an active
\* fixed-trigger subscription (rain_uv at 08:00, forecast_change at 18:00) of
\* a user with a location, exactly one evaluation of that alert has been
\* started for (user, kind) that day.
C21_OncePerDay ==
    \A u \in UserIds, args \in FixedTriggers :
        (/\ legacy.ticked
         /\ strftime_hhmm(clock) = args[2]
         /\ \E row \in users : row.user_id = u
         /\ \E i \in 1..Len(alerts) :
               /\ alerts[i].user_id = u
               /\ alerts[i].alert_type = args[1]
               /\ alerts[i].alert_time = args[2]
               /\ alerts[i].active = 1)
        => Cardinality(StartedFor(u, args[1])) = 1

\* C25: after a tick in which at least one alert was due, the scheduler
\* thread is still running.
C25_SchedulerSurvives ==
    legacy.triggered # {} => legacy.thread = "running"

----------------------------------------------------------------------------
(* A ledger that holds records whose sent_at does not parse (a row written *)
(* or damaged from outside the program), under the sequential scheduler.   *)

MalformedRows ==
    {[user_id |-> 1, alert_time |-> a, sent_at |-> BadTimeStr] : a \in LedgerKeys}

MalformedInit ==
    /\ clock = 0
    /\ users = {UserRow(1)}
    /\ \E act \in [UserIds -> {0, 1}] :
          alerts = [i \in 1..2 |-> AlertRow(i, i, "sunny", "next_sunny_hour", "clear_sky", act[i])]
    /\ forecast \in SeqsUpTo(HourlyEntries, 1)
    /\ ledger \in SUBSET MalformedRows
    /\ run = [r \in RunIds |-> IdleRun]
    /\ nsent = [k \in UserIds \X BucketKeys |-> 0]
    /\ nticks = 0
    /\ probe = NoProbe
    /\ legacy = NoLegacy

MalformedSpec == MalformedInit /\ [][Next]_vars

\* C22: for a record whose sent_at does not parse,
\* has_sent_alert_in_past_n_hours answers false (it does not raise), and a
\* completed run that evaluated the user has sent the notification for a
\* qualifying hour whose record is malformed: the hour is treated as not sent
\* and the run goes on to its end.
C22_MalformedFailOpen ==
    /\ \A row \in ledger :
          ~row.sent_at.valid
          => \A n \in 1..CooldownHours :
                ~has_sent_alert_in_past_n_hours(ledger, row.user_id, row.alert_time,
                                                n, clock)
    /\ \A r \in RunIds, u \in UserIds :
          (run[r].pc = "done" /\ run[r].fetched[u] = "evaluated")
          => \A k \in QualifyingAt(run[r].now) :
                (\E row \in RowsFor(u, BucketOf(k)) : ~row.sent_at.valid)
                => /\ run[r].last[u].some
                   /\ run[r].last[u].bucket = BucketOf(k)

\* C22 witness: the second run in a row has sent the notification again for
\* an hour whose record is malformed, and has completed.
C22_Witness ==
    \E r \in RunIds, u \in UserIds :
        /\ run[r].pc = "done"
        /\ run[r].tick >= 2
        /\ run[r].fetched[u] = "evaluated"
        /\ run[r].last[u].some
        /\ run[r].last[u].nth >= 2
        /\ \E row \in RowsFor(u, run[r].last[u].bucket) : ~row.sent_at.valid

----------------------------------------------------------------------------
(* Chat events (bot/handlers/callbacks.py, bot/handlers/commands.py): a    *)
(* user shares a location, presses one of the three subscribe buttons or   *)
(* the delete button; between them the sunny scheduler records a send.     *)
(* probe records the event and the tables as they were before it.          *)

MaxChatAlerts == 3  \* rows in the alerts table in the chat scenario

\* A subscribe button pressed without the check for a saved location.
setup_rain_uv_alert_unchecked(us, al, user_id) ==
    save_alert(al, user_id, "rain_uv", "08:00", "rain_or_high_uv")

\* setup_sunny_alert, setup_rain_uv_alert, setup_forecast_change_alert:
\* `if not location: return`, else save_alert; the alerts table afterwards
setup_sunny_alert(us, al, user_id) ==
    IF get_user_location(us, user_id) = NoLocation THEN al
    ELSE save_alert(al, user_id, "sunny", "next_sunny_hour", "clear_sky")

setup_rain_uv_alert(us, al, user_id) ==
    IF get_user_location(us, user_id) = NoLocation THEN al
    ELSE save_alert(al, user_id, "rain_uv", "08:00", "rain_or_high_uv")

setup_forecast_change_alert(us, al, user_id) ==
    IF get_user_location(us, user_id) = NoLocation THEN al
    ELSE save_alert(al, user_id, "forecast_change", "18:00", "any_change")

\* handle_location, location_command: the location is saved
HandleLocation(u, loc) ==
    /\ users' = save_user_location(users, u, "u", loc[1], loc[2], loc[3])
    /\ probe' = StoreCall("handle_location", u, loc)
    /\ UNCHANGED <<legacy, clock, alerts, forecast, ledger, run, nsent, nticks>>

\* button_callback: one of the three subscribe buttons
PressSubscribe(u, button) ==
    /\ Len(alerts) < MaxChatAlerts
    /\ alerts' = CASE button = "alert_sunny" -> setup_sunny_alert(users, alerts, u)
                   [] button = "alert_rain_uv" -> setup_rain_uv_alert(users, alerts, u)
                   [] button = "alert_forecast_change" ->
                          setup_forecast_change_alert(users, alerts, u)
    /\ probe' = StoreCall(button, u, <<>>)
    /\ UNCHANGED <<legacy, clock, users, forecast, ledger, run, nsent, nticks>>

\* button_callback: delete_alerts
PressDelete(u) ==
    /\ alerts' = deactivate_user_alerts(alerts, u)
    /\ probe' = StoreCall("delete_alerts", u, <<>>)
    /\ UNCHANGED <<legacy, clock, users, forecast, ledger, run, nsent, nticks>>

\* process_sunny_alerts as the store sees it: a record of a send is written
\* for a user who is a candidate
TickMark(u) ==
    /\ \E row \in get_sunny_alert_users(users, alerts) : row.user_id = u
    /\ ledger' = mark_alert_sent(ledger, u, LeadHours * Hour, clock)
    /\ probe' = StoreCall("mark_alert_sent", u, <<>>)
    /\ UNCHANGED <<legacy, clock, users, alerts, forecast, run, nsent, nticks>>

SubscribeButtons == {"alert_sunny", "alert_rain_uv", "alert_forecast_change"}

ChatNext ==
    \/ \E u \in UserIds, loc \in Locations : HandleLocation(u, loc)
    \/ \E u \in UserIds, button \in SubscribeButtons : PressSubscribe(u, button)
    \/ \E u \in UserIds : PressDelete(u)
    \/ \E u \in UserIds : TickMark(u)

ChatSpec == StoreInit /\ [][ChatNext]_vars

\* C23: no step removes the users row of a user, removes or renumbers a row
\* of the alerts table, changes a subscription in anything but its active
\* flag, sets an active flag back to 1, or removes or changes a ledger record.
C23_AppendOnly ==
    [][/\ \A row \in users : \E new \in users' : new.user_id = row.user_id
       /\ Len(alerts') >= Len(alerts)
       /\ \A i \in 1..Len(alerts) :
             \/ alerts'[i] = alerts[i]
             \/ alerts[i].active = 1 /\ alerts'[i] = [alerts[i] EXCEPT !.active = 0]
       /\ \A row \in ledger : row \in ledger']_vars

\* C23 witness: the delete button has turned two active subscriptions of a
\* user inactive, the rows are still in the table, and the user's location
\* and the record of a send are still there.
C23_Witness ==
    /\ probe.op = "delete_alerts"
    /\ Len(get_user_alerts(probe.alerts, probe.user_id)) >= 2
    /\ Len(alerts) = Len(probe.alerts)
    /\ \A i \in 1..Len(alerts) : alerts[i].active = 0
    /\ HasLocation(probe.user_id)
    /\ \E row \in ledger : row.user_id = probe.user_id

\* C28: a subscribe button pressed by a user without a saved location leaves
\* the users and alerts tables as they were, and every row of the alerts
\* table belongs to a user who has a users row.
C28_SubscribeNeedsLocation ==
    /\ (/\ probe.op \in SubscribeButtons
        /\ get_user_location(probe.users, probe.user_id) = NoLocation)
       => (alerts = probe.alerts /\ users = probe.users)
    /\ \A i \in 1..Len(alerts) : HasLocation(alerts[i].user_id)

\* C28 witness: the rain/UV button pressed by a user without a location has
\* added nothing, while the other user, who has one, holds a subscription.
C28_Witness ==
    /\ probe.op = "alert_rain_uv"
    /\ get_user_location(probe.users, probe.user_id) = NoLocation
    /\ alerts = probe.alerts
    /\ Len(alerts) >= 1
    /\ \A i \in 1..Len(alerts) : alerts[i].user_id # probe.user_id

----------------------------------------------------------------------------
(* The sequential scheduler while the chat platform is down: every call of *)
(* bot.send_message raises.                                                *)

OutageNext ==
    \/ Advance
    \/ \E r \in RunIds : Start(r)
    \/ \E r \in RunIds : Fetch(r)
    \/ \E r \in RunIds : Check(r)
    \/ \E r \in RunIds : Deliver(r, FALSE)
    \/ \E r \in RunIds : Mark(r)

OutageSpec == OverlapInit /\ [][OutageNext]_vars

\* C26: with every send failing, a notification attempted for (user, bucket)
\* has its ledger record as soon as the run has passed line 129, and while
\* that record is within the cooldown there has been no second attempt.
C26_FailedSendRecorded ==
    \A u \in UserIds, a \in BucketKeys :
        (/\ nsent[<<u, a>>] >= 1
         /\ \A r \in RunIds : run[r].pc # "mark")
        => /\ Cardinality(RowsFor(u, a)) = 1
           /\ Fresh(u, a) => nsent[<<u, a>>] = 1

\* C26 witness: a later run found the hour still qualifying and did not
\* send, because of the record left by the failed send of an earlier run.
C26_Witness ==
    \E r \in RunIds, u \in UserIds :
        /\ run[r].pc = "done"
        /\ run[r].tick >= 2
        /\ run[r].fetched[u] = "evaluated"
        /\ ~run[r].last[u].some
        /\ \E k \in QualifyingAt(run[r].now) :
              /\ nsent[<<u, BucketOf(k)>>] = 1
              /\ Fresh(u, BucketOf(k))
              /\ RowsFor(u, BucketOf(k)) # {}

----------------------------------------------------------------------------
(* The candidate queries as lists of rows (bot/utils/db.py): the join      *)
(* yields one row per matching alerts row, DISTINCT drops the repeats.     *)

MaxDuplicates == 2  \* alert rows of the user in the duplicate scenario

\* DISTINCT left out of the query.
Distinct_off(s) == s

\* SELECT DISTINCT: a row equal to an earlier one is dropped
Distinct(s) ==
    LET idx == SelectSeq([k \in 1..Len(s) |-> k],
                         LAMBDA k : \A j \in 1..(k - 1) : s[j] # s[k])
    IN  [m \in 1..Len(idx) |-> s[idx[m]]]

\* FROM users u JOIN alerts a ON u.user_id = a.user_id: the positions of the
\* alerts rows that have a users row
Joined(us, al) ==
    SelectSeq([i \in 1..Len(al) |-> i],
              LAMBDA i : \E u \in us : u.user_id = al[i].user_id)

UserOf(us, a) == CHOOSE u \in us : u.user_id = a.user_id

\* get_sunny_alert_users: the list fetchall() returns
fetch_sunny_alert_users(us, al) ==
    LET idx == SelectSeq(Joined(us, al),
                         LAMBDA i : al[i].alert_type = "sunny" /\ al[i].active = 1)
    IN  Distinct([k \in 1..Len(idx) |-> UserOf(us, al[idx[k]])])

\* get_alerts_to_send: the list fetchall() returns
fetch_alerts_to_send(us, al, current_time) ==
    LET idx == SelectSeq(Joined(us, al),
                         LAMBDA i : al[i].alert_time = current_time /\ al[i].active = 1)
    IN  Distinct([k \in 1..Len(idx) |->
                    LET u == UserOf(us, al[idx[k]])
                    IN  <<u.user_id, u.location_lat, u.location_lon, u.location_name,
                          al[idx[k]].alert_type>>])

\* One located user holding up to MaxDuplicates subscription rows, some of
\* them repeats, and one pair in the series.
DuplicateInit ==
    /\ clock = 0
    /\ users = {UserRow(1)}
    /\ \E s \in SeqsUpTo(AlertArgs \X {0, 1}, MaxDuplicates) :
          alerts = [i \in 1..Len(s) |->
                       AlertRow(i, 1, s[i][1][1], s[i][1][2], s[i][1][3], s[i][2])]
    /\ forecast \in SeqsUpTo(HourlyEntries, 1)
    /\ ledger = {}
    /\ run = [r \in RunIds |-> IdleRun]
    /\ nsent = [k \in UserIds \X BucketKeys |-> 0]
    /\ nticks = 0
    /\ probe = NoProbe
    /\ legacy = NoLegacy

DuplicateSpec == DuplicateInit /\ [][Next]_vars

\* how often user u (with kind, unless kind is "any") occurs in a list of rows
TimesIn(rows, u, kind) ==
    Cardinality({k \in 1..Len(rows) :
                    /\ (IF kind = "any" THEN rows[k].user_id ELSE rows[k][1]) = u
                    /\ kind # "any" => rows[k][5] = kind})

\* C27: a located user with one or more active sunny rows occurs exactly once
\* in the list get_sunny_alert_users returns, and a located user with one or
\* more active rows of a kind at a trigger occurs exactly once with that kind
\* in the list get_alerts_to_send returns for the trigger; a run lists each
\* candidate once, and a completed first run has sent the user one
\* notification per qualifying hour, whatever the number of rows.
C27_NoMultiplication ==
    /\ \A u \in UserIds :
          (HasLocation(u) /\ HasActive(u, "sunny", "any"))
          => TimesIn(fetch_sunny_alert_users(users, alerts), u, "any") = 1
    /\ {fetch_sunny_alert_users(users, alerts)[k] :
            k \in 1..Len(fetch_sunny_alert_users(users, alerts))}
          = get_sunny_alert_users(users, alerts)
    /\ \A u \in UserIds, kind \in AlertKinds, hm \in QueryTimes :
          (HasLocation(u) /\ HasActive(u, kind, hm))
          => TimesIn(fetch_alerts_to_send(users, alerts, hm), u, kind) = 1
    /\ \A r \in RunIds :
          /\ \A i, j \in 1..Len(run[r].users) :
                i # j => run[r].users[i].user_id # run[r].users[j].user_id
          /\ \A u \in UserIds :
                (/\ run[r].pc = "done"
                 /\ run[r].tick = 1
                 /\ run[r].fetched[u] = "evaluated")
                => run[r].nsent[u] = Cardinality(QualifyingAt(run[r].now))

\* C27 witness: the user holds two active sunny rows with the same trigger
\* and the first run, which evaluated the user for a qualifying hour, sent
\* one notification.
C27_Witness ==
    \E r \in RunIds :
        /\ Len(alerts) >= 2
        /\ \A i \in 1..2 :
              /\ alerts[i].user_id = 1
              /\ alerts[i].alert_type = "sunny"
              /\ alerts[i].alert_time = "next_sunny_hour"
              /\ alerts[i].active = 1
        /\ Len(fetch_sunny_alert_users(users, alerts)) = 1
        /\ run[r].pc = "done"
        /\ run[r].tick = 1
        /\ run[r].fetched[1] = "evaluated"
        /\ Cardinality(QualifyingAt(run[r].now)) = 1
        /\ run[r].nsent[1] = 1

----------------------------------------------------------------------------
(* bot/alert_scheduler.py started once per hour, with every fetch and      *)
(* every send succeeding, for a user whose location lies in a time zone.   *)

\* The longitudes of the user's location in the hourly scenario.
ZoneLongitudes == {0, 60}

\* "timezone": "auto" (bot/utils/weather.py): the provider serves the hourly
\* time strings in the local time of the coordinates, without an offset; the
\* nominal zone of a longitude is one hour per 15 degrees.
utc_offset(lon) == (lon \div 15) * Hour

\* The local time strings served in the hourly scenario.
HourlyTimes == {Hour, 3 * Hour, 5 * Hour}

HourlyInit ==
    /\ clock = 0
    /\ \E lon \in ZoneLongitudes : users = {[UserRow(1) EXCEPT !.location_lon = lon]}
    /\ alerts = <<AlertRow(1, 1, "sunny", "next_sunny_hour", "clear_sky", 1)>>
    /\ forecast \in SeqsUpTo({[time |-> TimeStr(t), weather_code |-> c] :
                                 t \in HourlyTimes, c \in {0, 3}}, MaxEntries)
    /\ ledger = {}
    /\ run = [r \in RunIds |-> IdleRun]
    /\ nsent = [k \in UserIds \X {alert_time_str(t) : t \in HourlyTimes} |-> 0]
    /\ nticks = 0
    /\ probe = NoProbe
    /\ legacy = NoLegacy

\* The run of the hour is started.
HourlyStart ==
    /\ run[1].pc = "idle" \/ (run[1].pc = "done" /\ run[1].now < clock)
    /\ Begin(1, MaxTicks)

\* An hour passes between two runs.
HourlyAdvance ==
    /\ run[1].pc = "done"
    /\ run[1].now = clock
    /\ nticks < MaxTicks
    /\ clock' = clock + Hour
    /\ UNCHANGED <<legacy, users, alerts, forecast, ledger, run, nsent, nticks, probe>>

HourlyNext ==
    \/ HourlyStart
    \/ HourlyAdvance
    \/ Receive(1, "ok")
    \/ Check(1)
    \/ Deliver(1, TRUE)
    \/ Mark(1)

HourlySpec == HourlyInit /\ [][HourlyNext]_vars

\* The instant at which the hour named by a served time string begins at the
\* location of user u.
InstantOf(u, e) ==
    fromisoformat(e.time)
        - utc_offset((CHOOSE row \in users : row.user_id = u).location_lon)

\* C24: with hourly runs, a standing subscription and every fetch and send
\* succeeding, once a clear-sky hour of the series that lay ahead at the first
\* run has begun at the user's location, the ledger holds a notification for
\* it that was sent before the hour began.
C24_ClearHourNotifiedBefore ==
    \A k \in 1..Len(forecast) :
        (/\ forecast[k].weather_code = 0
         /\ InstantOf(1, forecast[k]) > 0
         /\ clock >= InstantOf(1, forecast[k]))
        => \E row \in ledger :
              /\ row.user_id = 1
              /\ row.alert_time = alert_time_str(fromisoformat(forecast[k].time))
              /\ fromisoformat(row.sent_at) < InstantOf(1, forecast[k])

----------------------------------------------------------------------------
(* The wind direction label of format_weather_message                      *)
(* (bot/handlers/commands.py; weather_bot.py has the same expression).     *)

Sector == 45

\* wind_direction_10m as handed to the formatter: a number of half degrees
\* from 0 to 360 degrees, or the default "N/A".
WindDirections == {Num(h) : h \in 0..(2 * 8 * Sector)} \cup {NotAvailable}

\* round(h / 2 / 45): Python rounds to the nearest integer, a tie to the even one
round(h) ==
    LET q == h \div (2 * Sector)
        rest == h % (2 * Sector)
    IN  IF rest < Sector THEN q
        ELSE IF rest > Sector THEN q + 1
        ELSE IF q % 2 = 0 THEN q ELSE q + 1

\* wind_dirs.get(key, "N/A")
wind_dirs(key) ==
    CASE key = 0 -> "N"
      [] key = 45 -> "NE"
      [] key = 90 -> "E"
      [] key = 135 -> "SE"
      [] key = 180 -> "S"
      [] key = 225 -> "SW"
      [] key = 270 -> "W"
      [] key = 315 -> "NW"
      [] OTHER -> "N/A"

wind_dir(wind_direction) ==
    IF IsNumber(wind_direction)
    THEN wind_dirs(round(wind_direction.v) * Sector)
    ELSE "N/A"

FormatInit ==
    /\ clock = 0
    /\ users = {}
    /\ alerts = <<>>
    /\ forecast = <<>>
    /\ ledger = {}
    /\ run = [r \in RunIds |-> IdleRun]
    /\ nsent = [k \in UserIds \X BucketKeys |-> 0]
    /\ nticks = 0
    /\ probe = NoProbe
    /\ legacy = NoLegacy

\* format_weather_message computes the label of a reading.
WindDirCall ==
    /\ \E d \in WindDirections :
          probe' = [op |-> "wind_dir", wind_direction |-> d, result |-> wind_dir(d)]
    /\ UNCHANGED <<legacy, clock, users, alerts, forecast, ledger, run, nsent, nticks>>

FormatNext == WindDirCall

FormatSpec == FormatInit /\ [][FormatNext]_vars

\* C29: for every numeric direction from 0 to 360 degrees the label is one of
\* the eight compass points, never "N/A".
C29_WindDirectionTotal ==
    (probe.op = "wind_dir" /\ IsNumber(probe.wind_direction))
    => probe.result \in {"N", "NE", "E", "SE", "S", "SW", "W", "NW"}

====
